---------------------------- MODULE Spec2Model ----------------------------
(***************************************************************************)
(* The I2C register/command protocol of the ESP32-S3 modular synth         *)
(* (include/module_i2c_proto.h): the register table, the parameter         *)
(* identifier table, the 4-byte parameter value union, the two packed      *)
(* payload structures and the four pack/unpack helpers, driven by a        *)
(* master that builds one message in a caller-owned buffer and a slave     *)
(* that unpacks the payload it receives.                                   *)
(*                                                                         *)
(* Memory is modelled as sequences of bytes (0..255).  The target is the   *)
(* ESP32-S3, a little-endian machine, so an object's low byte is stored    *)
(* first.  A uint32_t is held as two 16-bit digits [hi, lo] (the number    *)
(* hi * 2^16 + lo), because the model checker's integers are 32-bit        *)
(* signed; int32_t fits and is an integer.                                 *)
(***************************************************************************)
EXTENDS Integers, Sequences, FiniteSets, TLC

VARIABLES
    value,        \* master: the ParamValue_t object being built (4 bytes)
    buf,          \* master: output buffer, [null, mem]
    buf_len,      \* master: capacity passed with buf
    ret,          \* master: size_t returned by the last pack call
    reg,          \* slave: command/register byte last received
    reg_class,    \* slave: address class the dispatcher gave reg
    rx,           \* slave: payload bytes received after the command byte
    param_id,     \* slave: ParamId_t out object
    param_value,  \* slave: ParamValue_t out object (4 bytes)
    config,       \* slave: I2sConfig_t out object
    ok,           \* slave: bool returned by the last unpack call
    call          \* the last operation and its arguments

vars == <<value, buf, buf_len, ret, reg, reg_class, rx,
          param_id, param_value, config, ok, call>>

-----------------------------------------------------------------------------
(* Bounds of the model *)

\* Largest buffer capacity the master allocates (the spec's scenario uses 16).
MaxCap == 16
\* Longest payload an arbitrary master puts on the bus after the command byte.
MaxLen == 7

-----------------------------------------------------------------------------
(* Register / command table *)

REG_COMMON_MODULE_TYPE      == \H00
REG_COMMON_FIRMWARE_VERSION == \H01
REG_COMMON_STATUS           == \H02
REG_COMMON_UID_PART1        == \H03
REG_COMMON_UID_PART2        == \H04
REG_SPECIFIC_READ_START     == \H20

\* A copy of the line above it, its value not bumped.
REG_COMMON_SET_PARAM_dup == \H81

CMD_COMMON_RESET         == \H80
REG_COMMON_I2S_CONFIG    == \H81
REG_COMMON_SET_PARAM     == \H82
CMD_COMMON_SAVE_SETTINGS == \H83
REG_SPECIFIC_WRITE_START == \HA0

\* The registers and commands the two enums define, by name.
CommonReadRegs ==
    { [name |-> "REG_COMMON_MODULE_TYPE",      addr |-> REG_COMMON_MODULE_TYPE],
      [name |-> "REG_COMMON_FIRMWARE_VERSION", addr |-> REG_COMMON_FIRMWARE_VERSION],
      [name |-> "REG_COMMON_STATUS",           addr |-> REG_COMMON_STATUS],
      [name |-> "REG_COMMON_UID_PART1",        addr |-> REG_COMMON_UID_PART1],
      [name |-> "REG_COMMON_UID_PART2",        addr |-> REG_COMMON_UID_PART2] }

CommonWriteRegs ==
    { [name |-> "CMD_COMMON_RESET",         addr |-> CMD_COMMON_RESET],
      [name |-> "REG_COMMON_I2S_CONFIG",    addr |-> REG_COMMON_I2S_CONFIG],
      [name |-> "REG_COMMON_SET_PARAM",     addr |-> REG_COMMON_SET_PARAM],
      [name |-> "CMD_COMMON_SAVE_SETTINGS", addr |-> CMD_COMMON_SAVE_SETTINGS] }

\* The address class of an 8-bit register address: the ranges the start
\* markers of the two enums delimit.
RegClass(a) ==
    IF a >= REG_SPECIFIC_WRITE_START THEN "specific_write"
    ELSE IF a >= CMD_COMMON_RESET THEN "common_write"
    ELSE IF a >= REG_SPECIFIC_READ_START THEN "specific_read"
    ELSE "common_read"

-----------------------------------------------------------------------------
(* Parameter identifiers *)

\* C's bitwise | on non-negative integers.
RECURSIVE BitOr(_, _)
BitOr(a, b) ==
    IF a = 0 THEN b
    ELSE IF b = 0 THEN a
    ELSE (IF a % 2 = 1 \/ b % 2 = 1 THEN 1 ELSE 0) + 2 * BitOr(a \div 2, b \div 2)

\* The filter range started on the oscillator's.
PARAM_RANGE_FILTER_clash == \H1000

PARAM_RANGE_COMMON == \H0000
PARAM_RANGE_OSC    == \H1000
PARAM_RANGE_FILTER == \H1100
PARAM_RANGE_LFO    == \H3000

PARAM_OSC_WAVEFORM           == BitOr(PARAM_RANGE_OSC, \H0001)
PARAM_OSC_FREQUENCY_PITCH    == BitOr(PARAM_RANGE_OSC, \H0002)
PARAM_OSC_FREQUENCY_FINE     == BitOr(PARAM_RANGE_OSC, \H0003)
PARAM_OSC_LEVEL              == BitOr(PARAM_RANGE_OSC, \H0004)
PARAM_OSC_AMP_MOD_SLOT       == BitOr(PARAM_RANGE_OSC, \H0005)
PARAM_OSC_FREQ_MOD_SLOT      == BitOr(PARAM_RANGE_OSC, \H0006)
PARAM_OSC_PW                 == BitOr(PARAM_RANGE_OSC, \H0007)
PARAM_OSC_SYNC_SOURCE_SLOT   == BitOr(PARAM_RANGE_OSC, \H0008)
PARAM_FILTER_TYPE            == BitOr(PARAM_RANGE_FILTER, \H0001)
PARAM_FILTER_CUTOFF_PITCH    == BitOr(PARAM_RANGE_FILTER, \H0002)
PARAM_FILTER_CUTOFF_FINE     == BitOr(PARAM_RANGE_FILTER, \H0003)
PARAM_FILTER_RESONANCE       == BitOr(PARAM_RANGE_FILTER, \H0004)
PARAM_FILTER_CUTOFF_MOD_SLOT == BitOr(PARAM_RANGE_FILTER, \H0005)
PARAM_LFO_WAVEFORM           == BitOr(PARAM_RANGE_LFO, \H0001)
PARAM_LFO_RATE_HZ            == BitOr(PARAM_RANGE_LFO, \H0002)
PARAM_LFO_DEPTH              == BitOr(PARAM_RANGE_LFO, \H0003)
PARAM_LFO_SYNC_CLOCK_DIV     == BitOr(PARAM_RANGE_LFO, \H0004)

\* ParamIdValue_t: every enumerator with the module type its comment names.
ParamIdValue_t ==
    { [name |-> "PARAM_OSC_WAVEFORM",           id |-> PARAM_OSC_WAVEFORM,           module |-> "OSC"],
      [name |-> "PARAM_OSC_FREQUENCY_PITCH",    id |-> PARAM_OSC_FREQUENCY_PITCH,    module |-> "OSC"],
      [name |-> "PARAM_OSC_FREQUENCY_FINE",     id |-> PARAM_OSC_FREQUENCY_FINE,     module |-> "OSC"],
      [name |-> "PARAM_OSC_LEVEL",              id |-> PARAM_OSC_LEVEL,              module |-> "OSC"],
      [name |-> "PARAM_OSC_AMP_MOD_SLOT",       id |-> PARAM_OSC_AMP_MOD_SLOT,       module |-> "OSC"],
      [name |-> "PARAM_OSC_FREQ_MOD_SLOT",      id |-> PARAM_OSC_FREQ_MOD_SLOT,      module |-> "OSC"],
      [name |-> "PARAM_OSC_PW",                 id |-> PARAM_OSC_PW,                 module |-> "OSC"],
      [name |-> "PARAM_OSC_SYNC_SOURCE_SLOT",   id |-> PARAM_OSC_SYNC_SOURCE_SLOT,   module |-> "OSC"],
      [name |-> "PARAM_FILTER_TYPE",            id |-> PARAM_FILTER_TYPE,            module |-> "FILTER"],
      [name |-> "PARAM_FILTER_CUTOFF_PITCH",    id |-> PARAM_FILTER_CUTOFF_PITCH,    module |-> "FILTER"],
      [name |-> "PARAM_FILTER_CUTOFF_FINE",     id |-> PARAM_FILTER_CUTOFF_FINE,     module |-> "FILTER"],
      [name |-> "PARAM_FILTER_RESONANCE",       id |-> PARAM_FILTER_RESONANCE,       module |-> "FILTER"],
      [name |-> "PARAM_FILTER_CUTOFF_MOD_SLOT", id |-> PARAM_FILTER_CUTOFF_MOD_SLOT, module |-> "FILTER"],
      [name |-> "PARAM_LFO_WAVEFORM",           id |-> PARAM_LFO_WAVEFORM,           module |-> "LFO"],
      [name |-> "PARAM_LFO_RATE_HZ",            id |-> PARAM_LFO_RATE_HZ,            module |-> "LFO"],
      [name |-> "PARAM_LFO_DEPTH",              id |-> PARAM_LFO_DEPTH,              module |-> "LFO"],
      [name |-> "PARAM_LFO_SYNC_CLOCK_DIV",     id |-> PARAM_LFO_SYNC_CLOCK_DIV,     module |-> "LFO"] }

\* The range each module type's comment declares: base .. base | 0x00FF.
ParamRanges ==
    { [module |-> "OSC",    lo |-> PARAM_RANGE_OSC,    hi |-> BitOr(PARAM_RANGE_OSC, \H00FF)],
      [module |-> "FILTER", lo |-> PARAM_RANGE_FILTER, hi |-> BitOr(PARAM_RANGE_FILTER, \H00FF)],
      [module |-> "LFO",    lo |-> PARAM_RANGE_LFO,    hi |-> BitOr(PARAM_RANGE_LFO, \H00FF)] }

-----------------------------------------------------------------------------
(* Objects in memory *)

SIZEOF_uint16_t == 2

\* The bytes of a uint16_t object, low byte first.
StoreLE16(x) == << x % 256, (x \div 256) % 256 >>

\* The same read on a big-endian build.
LoadBE16(mem, off) == 256 * mem[off + 1] + mem[off + 2]

\* The uint16_t stored at byte offset off of mem.
LoadLE16(mem, off) == mem[off + 1] + 256 * mem[off + 2]

\* memcpy(dst + off, src, n); bytes of src past its end read as padding (0).
Memcpy(dst, off, src, n) ==
    [i \in 1..Len(dst) |->
        IF off < i /\ i <= off + n
        THEN (IF i - off <= Len(src) THEN src[i - off] ELSE 0)
        ELSE dst[i]]

-----------------------------------------------------------------------------
(* ParamValue_t: a union, so every member reads the same 4 bytes *)

SIZEOF_ParamValue_t == 4

u8(v, k) == v[k + 1]

u16(v, k) == LoadLE16(v, 2 * k)

\* int16_t: the sign is the top bit of the member's high byte.
s16(v, k) ==
    v[2 * k + 1] + 256 * (v[2 * k + 2] % 128)
        - (IF v[2 * k + 2] >= 128 THEN 32768 ELSE 0)

u32(v) == [lo |-> LoadLE16(v, 0), hi |-> LoadLE16(v, 2)]

\* int32_t: the sign is the top bit of byte 3.
s32(v) ==
    LET low31 == v[1] + 256 * v[2] + 65536 * v[3] + 16777216 * (v[4] % 128)
    IN  IF v[4] >= 128 THEN (low31 - 2147483647) - 1 ELSE low31

\* Assignments through one member.
set_u8(v, k, x) == [v EXCEPT ![k + 1] = x]

set_u16(v, k, x) ==
    [v EXCEPT ![2 * k + 1] = x % 256, ![2 * k + 2] = (x \div 256) % 256]

set_s16(v, k, x) == set_u16(v, k, x % 65536)

set_u32(v, x) ==
    << x.lo % 256, (x.lo \div 256) % 256, x.hi % 256, (x.hi \div 256) % 256 >>

set_s32(v, x) ==
    << x % 256, (x \div 256) % 256, (x \div 65536) % 256, (x \div 16777216) % 256 >>

-----------------------------------------------------------------------------
(* The packed payload structures *)

\* Masks widened to 32 slots.
SIZEOF_I2sConfig_t_wide == 4 + 4

\* I2sConfig_t: two uint16_t, packed.
SIZEOF_I2sConfig_t == 4

\* The two masks declared in the other order.
I2sConfig_bytes_output_first(c) ==
    StoreLE16(c.output_slot_mask) \o StoreLE16(c.input_slot_mask)

I2sConfig_bytes(c) ==
    StoreLE16(c.input_slot_mask) \o StoreLE16(c.output_slot_mask)

\* The two masks taken in the other order.
I2sConfig_load_swapped(mem) ==
    [input_slot_mask |-> LoadLE16(mem, 2), output_slot_mask |-> LoadLE16(mem, 0)]

I2sConfig_load(mem) ==
    [input_slot_mask |-> LoadLE16(mem, 0), output_slot_mask |-> LoadLE16(mem, 2)]

\* Without the packed attribute param_value is aligned to 4: 2 + 2 + 4 bytes.
SIZEOF_SetParamPayload_t_unpacked == SIZEOF_uint16_t + 2 + SIZEOF_ParamValue_t

\* SetParamPayload_t: ParamId_t then ParamValue_t, packed.
SIZEOF_SetParamPayload_t == 6

\* The two members declared in the other order.
SetParamPayload_bytes_value_first(id, v) == v \o StoreLE16(id)

SetParamPayload_bytes(id, v) == StoreLE16(id) \o v

\* The identifier read as network byte order.
SetParamPayload_param_id_be(mem) == LoadBE16(mem, 0)

SetParamPayload_param_id(mem) == LoadLE16(mem, 0)

SetParamPayload_param_value(mem) ==
    SubSeq(mem, SIZEOF_uint16_t + 1, SIZEOF_uint16_t + SIZEOF_ParamValue_t)

-----------------------------------------------------------------------------
(* The four helpers.  A pointer argument is [null, mem] (a buffer) or       *)
(* [null, obj] (an out object); each helper returns its result and the     *)
(* objects it may have written.                                            *)

i2c_proto_pack_set_param_msg(b, blen, id, v) ==
    IF b.null \/ blen < 1 + SIZEOF_SetParamPayload_t
    THEN [ret |-> 0, buf |-> b]
    ELSE [ret |-> 1 + SIZEOF_SetParamPayload_t,
          buf |-> [b EXCEPT !.mem =
                      Memcpy([@ EXCEPT ![1] = REG_COMMON_SET_PARAM], 1,
                             SetParamPayload_bytes(id, v),
                             SIZEOF_SetParamPayload_t)]]

\* The identifier stored before the value pointer is looked at.
i2c_proto_unpack_set_param_payload_partial(p, plen, idp, valp) ==
    IF p.null \/ idp.null \/ plen # SIZEOF_SetParamPayload_t
    THEN [ok |-> FALSE, param_id |-> idp, param_value |-> valp]
    ELSE IF valp.null
    THEN [ok |-> FALSE,
          param_id    |-> [idp EXCEPT !.obj = SetParamPayload_param_id(p.mem)],
          param_value |-> valp]
    ELSE [ok |-> TRUE,
          param_id    |-> [idp  EXCEPT !.obj = SetParamPayload_param_id(p.mem)],
          param_value |-> [valp EXCEPT !.obj = SetParamPayload_param_value(p.mem)]]

i2c_proto_unpack_set_param_payload(p, plen, idp, valp) ==
    IF p.null \/ idp.null \/ valp.null \/ plen # SIZEOF_SetParamPayload_t
    THEN [ok |-> FALSE, param_id |-> idp, param_value |-> valp]
    ELSE [ok |-> TRUE,
          param_id    |-> [idp  EXCEPT !.obj = SetParamPayload_param_id(p.mem)],
          param_value |-> [valp EXCEPT !.obj = SetParamPayload_param_value(p.mem)]]

i2c_proto_pack_i2s_config_msg(b, blen, cfgp) ==
    IF b.null \/ cfgp.null \/ blen < 1 + SIZEOF_I2sConfig_t
    THEN [ret |-> 0, buf |-> b]
    ELSE [ret |-> 1 + SIZEOF_I2sConfig_t,
          buf |-> [b EXCEPT !.mem =
                      Memcpy([@ EXCEPT ![1] = REG_COMMON_I2S_CONFIG], 1,
                             I2sConfig_bytes(cfgp.obj),
                             SIZEOF_I2sConfig_t)]]

i2c_proto_unpack_i2s_config_payload(p, plen, cfgp) ==
    IF p.null \/ cfgp.null \/ plen # SIZEOF_I2sConfig_t
    THEN [ok |-> FALSE, config |-> cfgp]
    ELSE [ok |-> TRUE, config |-> [cfgp EXCEPT !.obj = I2sConfig_load(p.mem)]]

-----------------------------------------------------------------------------
(* Inputs the master and the bus draw from *)

\* Byte the master fills a fresh buffer with.
FILL == \HA5

\* What an object holds before it is first written: stale bytes.
STALE == <<\HDE, \HAD, \HBE, \HEF>>

IdInputs ==
    { \H0000, PARAM_OSC_WAVEFORM, PARAM_FILTER_CUTOFF_MOD_SLOT,
      PARAM_LFO_SYNC_CLOCK_DIV, \H0110, \HFFFF }

U32Inputs ==
    { [hi |-> \H1234, lo |-> \H5678], [hi |-> \H0000, lo |-> \H0001],
      [hi |-> \H8000, lo |-> \H0000], [hi |-> \HFFFF, lo |-> \HFFFF] }

S32Inputs == { -1, (-2147483647) - 1, 2147483647, -19088744 }

U16Inputs == { \H0003, \H1234, \H8000, \HFFFF }

S16Inputs == { -1, -32768, 32767, 258 }

U8Inputs == { \H01, \H80, \HFF }

MaskInputs == { \H0000, \H0003, \H0008, \H8001, \HFFFF }

ConfigInputs ==
    [input_slot_mask : MaskInputs, output_slot_mask : MaskInputs]

\* The config pointers a pack call is given: an object, or NULL.
ConfigPtrInputs ==
    { [null |-> FALSE, obj |-> c] : c \in ConfigInputs }
        \cup { [null |-> TRUE, obj |-> I2sConfig_load(<<0, 0, 0, 0>>)] }

InjectBytes == { \H00, \H03, \H08 }

\* Every payload of n bytes over InjectBytes.
PayloadsOfLen(n) == [1..n -> InjectBytes]

WriteOps == {"set_u32", "set_s32", "set_u16", "set_s16", "set_u8"}

PackOps == {"pack_set_param", "pack_i2s_config"}

-----------------------------------------------------------------------------
(* The state machine *)

Init ==
    /\ value = STALE
    /\ buf = [null |-> TRUE, mem |-> <<>>]
    /\ buf_len = 0
    /\ ret = 0
    /\ reg = 0
    /\ reg_class = RegClass(0)
    /\ rx = <<>>
    /\ param_id = LoadLE16(STALE, 0)
    /\ param_value = STALE
    /\ config = I2sConfig_load(STALE)
    /\ ok = FALSE
    /\ call = [op |-> "init"]

\* The master takes a buffer of cap bytes, or passes no buffer at all.
AllocBuf ==
    /\ call.op = "init"
    /\ \E null \in BOOLEAN, cap \in 0..MaxCap :
          /\ buf' = [null |-> null,
                     mem  |-> IF null THEN <<>> ELSE [i \in 1..cap |-> FILL]]
          /\ buf_len' = cap
    /\ call' = [op |-> "alloc"]
    /\ UNCHANGED <<value, ret, reg, reg_class, rx, param_id, param_value, config, ok>>

\* The master assigns the value through one member of the union.
SetU32 ==
    /\ call.op = "alloc"
    /\ \E x \in U32Inputs :
          /\ value' = set_u32(value, x)
          /\ call' = [op |-> "set_u32", x |-> x]
    /\ UNCHANGED <<buf, buf_len, ret, reg, reg_class, rx, param_id, param_value, config, ok>>

SetS32 ==
    /\ call.op = "alloc"
    /\ \E x \in S32Inputs :
          /\ value' = set_s32(value, x)
          /\ call' = [op |-> "set_s32", x |-> x]
    /\ UNCHANGED <<buf, buf_len, ret, reg, reg_class, rx, param_id, param_value, config, ok>>

SetU16 ==
    /\ call.op = "alloc"
    /\ \E k \in 0..1, x \in U16Inputs :
          /\ value' = set_u16(value, k, x)
          /\ call' = [op |-> "set_u16", k |-> k, x |-> x]
    /\ UNCHANGED <<buf, buf_len, ret, reg, reg_class, rx, param_id, param_value, config, ok>>

SetS16 ==
    /\ call.op = "alloc"
    /\ \E k \in 0..1, x \in S16Inputs :
          /\ value' = set_s16(value, k, x)
          /\ call' = [op |-> "set_s16", k |-> k, x |-> x]
    /\ UNCHANGED <<buf, buf_len, ret, reg, reg_class, rx, param_id, param_value, config, ok>>

SetU8 ==
    /\ call.op = "alloc"
    /\ \E k \in 0..3, x \in U8Inputs :
          /\ value' = set_u8(value, k, x)
          /\ call' = [op |-> "set_u8", k |-> k, x |-> x]
    /\ UNCHANGED <<buf, buf_len, ret, reg, reg_class, rx, param_id, param_value, config, ok>>

\* ret = i2c_proto_pack_set_param_msg(buf, buf_len, id, value)
PackSetParam ==
    /\ call.op \in {"alloc"} \cup WriteOps
    /\ \E id \in IdInputs :
          LET r == i2c_proto_pack_set_param_msg(buf, buf_len, id, value)
          IN  /\ ret' = r.ret
              /\ buf' = r.buf
              /\ call' = [op |-> "pack_set_param", param_id |-> id]
    /\ UNCHANGED <<value, buf_len, reg, reg_class, rx, param_id, param_value, config, ok>>

\* ret = i2c_proto_pack_i2s_config_msg(buf, buf_len, cfgp), cfgp possibly null
PackI2sConfig ==
    /\ call.op = "alloc"
    /\ \E cfgp \in ConfigPtrInputs :
          LET r == i2c_proto_pack_i2s_config_msg(buf, buf_len, cfgp)
          IN  /\ ret' = r.ret
              /\ buf' = r.buf
              /\ call' = [op |-> "pack_i2s_config", config |-> cfgp]
    /\ UNCHANGED <<value, buf_len, reg, reg_class, rx, param_id, param_value, config, ok>>

\* The bus carries the ret bytes of a packed message to the slave, which
\* splits the command byte from the payload.
Transfer ==
    /\ call.op \in PackOps
    /\ ret > 0
    /\ reg' = buf.mem[1]
    /\ reg_class' = RegClass(buf.mem[1])
    /\ rx' = SubSeq(buf.mem, 2, ret)
    /\ call' = [op |-> "transfer", sent |-> call]
    /\ UNCHANGED <<value, buf, buf_len, ret, param_id, param_value, config, ok>>

\* Some other master writes a command byte and any payload.
Inject ==
    /\ call.op = "init"
    /\ \E cmd \in {REG_COMMON_SET_PARAM, REG_COMMON_I2S_CONFIG}, n \in 0..MaxLen :
          \E payload \in PayloadsOfLen(n) :
              /\ reg' = cmd
              /\ reg_class' = RegClass(cmd)
              /\ rx' = payload
    /\ call' = [op |-> "inject"]
    /\ UNCHANGED <<value, buf, buf_len, ret, param_id, param_value, config, ok>>

\* The master writes a register address alone (the start of a read, or a
\* command without payload).
SelectRegister ==
    /\ call.op = "init"
    /\ \E a \in 0..255 :
          /\ reg' = a
          /\ reg_class' = RegClass(a)
    /\ rx' = <<>>
    /\ call' = [op |-> "select"]
    /\ UNCHANGED <<value, buf, buf_len, ret, param_id, param_value, config, ok>>

\* ok = i2c_proto_unpack_set_param_payload(rx, len, &param_id, &param_value),
\* any of the three pointers possibly null.
UnpackSetParam ==
    /\ call.op \in {"transfer", "inject"}
    /\ reg = REG_COMMON_SET_PARAM
    /\ \E pnull \in BOOLEAN, idnull \in BOOLEAN, valnull \in BOOLEAN :
          LET r == i2c_proto_unpack_set_param_payload(
                       [null |-> pnull, mem |-> IF pnull THEN <<>> ELSE rx],
                       Len(rx),
                       [null |-> idnull, obj |-> param_id],
                       [null |-> valnull, obj |-> param_value])
          IN  /\ ok' = r.ok
              /\ param_id' = r.param_id.obj
              /\ param_value' = r.param_value.obj
              /\ call' = [op |-> "unpack_set_param", payload_len |-> Len(rx),
                          payload_null |-> pnull, id_null |-> idnull,
                          value_null |-> valnull, from |-> call]
    /\ UNCHANGED <<value, buf, buf_len, ret, reg, reg_class, rx, config>>

\* ok = i2c_proto_unpack_i2s_config_payload(rx, len, &config), either
\* pointer possibly null.
UnpackI2sConfig ==
    /\ call.op \in {"transfer", "inject"}
    /\ reg = REG_COMMON_I2S_CONFIG
    /\ \E pnull \in BOOLEAN, cfgnull \in BOOLEAN :
          LET r == i2c_proto_unpack_i2s_config_payload(
                       [null |-> pnull, mem |-> IF pnull THEN <<>> ELSE rx],
                       Len(rx),
                       [null |-> cfgnull, obj |-> config])
          IN  /\ ok' = r.ok
              /\ config' = r.config.obj
              /\ call' = [op |-> "unpack_i2s_config", payload_len |-> Len(rx),
                          payload_null |-> pnull, config_null |-> cfgnull,
                          from |-> call]
    /\ UNCHANGED <<value, buf, buf_len, ret, reg, reg_class, rx, param_id, param_value>>

Next ==
    \/ AllocBuf
    \/ SetU32
    \/ SetS32
    \/ SetU16
    \/ SetS16
    \/ SetU8
    \/ PackSetParam
    \/ PackI2sConfig
    \/ Transfer
    \/ Inject
    \/ SelectRegister
    \/ UnpackSetParam
    \/ UnpackI2sConfig

Spec == Init /\ [][Next]_vars

-----------------------------------------------------------------------------
(* Properties *)

NoNullSetParam(c) == ~c.payload_null /\ ~c.id_null /\ ~c.value_null

NoNullI2sConfig(c) == ~c.payload_null /\ ~c.config_null

\* C1: set-parameter round trip.  Packing (param_id, value) into a buffer of
\* capacity >= 7 returns 7, and unpacking the 6 bytes that follow the command
\* byte succeeds and yields the same param_id and the same 4 value bytes.
C1_SetParamRoundTrip ==
    /\ (call.op = "pack_set_param" /\ ~buf.null /\ buf_len >= 7) => ret = 7
    /\ (/\ call.op = "unpack_set_param"
        /\ call.from.op = "transfer"
        /\ call.from.sent.op = "pack_set_param"
        /\ NoNullSetParam(call))
       => /\ rx = SubSeq(buf.mem, 2, 7)
          /\ call.payload_len = 6
          /\ ok
          /\ param_id = call.from.sent.param_id
          /\ param_value = value

C1_Witness ==
    /\ call.op = "unpack_set_param"
    /\ call.from.op = "transfer"
    /\ call.from.sent.op = "pack_set_param"
    /\ NoNullSetParam(call)
    /\ buf_len = 7
    /\ ok
    /\ param_id = \H1001
    /\ param_value = <<\H78, \H56, \H34, \H12>>

\* C2: I2S-config round trip.  Packing a config into a buffer of capacity >= 5
\* returns 5, and unpacking the 4 bytes that follow the command byte succeeds
\* and yields the same input_slot_mask and output_slot_mask.
C2_I2sConfigRoundTrip ==
    /\ (/\ call.op = "pack_i2s_config"
        /\ ~call.config.null
        /\ ~buf.null
        /\ buf_len >= 5) => ret = 5
    /\ (/\ call.op = "unpack_i2s_config"
        /\ call.from.op = "transfer"
        /\ call.from.sent.op = "pack_i2s_config"
        /\ NoNullI2sConfig(call))
       => /\ rx = SubSeq(buf.mem, 2, 5)
          /\ call.payload_len = 4
          /\ ok
          /\ config.input_slot_mask = call.from.sent.config.obj.input_slot_mask
          /\ config.output_slot_mask = call.from.sent.config.obj.output_slot_mask

C2_Witness ==
    /\ call.op = "unpack_i2s_config"
    /\ call.from.op = "transfer"
    /\ call.from.sent.op = "pack_i2s_config"
    /\ NoNullI2sConfig(call)
    /\ ok
    /\ config = [input_slot_mask |-> \H0003, output_slot_mask |-> \H8001]

\* The size of the message a pack call builds.
MsgSize(op) == IF op = "pack_set_param" THEN 7 ELSE 5

\* Byte i of the buffer was written by the step (FILL occurs in no input).
Written(i) == buf'.mem[i] # buf.mem[i]

\* One step of the model, as C3_Original constrains it.
C3_OriginalStep ==
    call'.op \in PackOps =>
        LET size == MsgSize(call'.op)
        IN  /\ buf_len < size => (ret' = 0 /\ buf' = buf)
            /\ (~buf.null /\ buf_len >= size) => ret' = size
            /\ ret' \in {0, size}
            /\ ret' = 0 => buf' = buf
            /\ ret' = size => \A i \in 1..size : Written(i)

\* C3 as the claim words it: a pack call with a non-null buffer and enough
\* capacity returns the message size, whatever its config pointer.
C3_Original == [][C3_OriginalStep]_vars

\* One step of the model, as C3_PackCapacityGuard constrains it.
C3_PackStep ==
    call'.op \in PackOps =>
        LET size == MsgSize(call'.op)
            args == call'.op = "pack_i2s_config" => ~call'.config.null
        IN  /\ buf_len < size => (ret' = 0 /\ buf' = buf)
            /\ (~buf.null /\ args /\ buf_len >= size) => ret' = size
            /\ ret' \in {0, size}
            /\ ret' = 0 => buf' = buf
            /\ ret' = size => \A i \in 1..size : Written(i)

\* C3 (amended): pack capacity guard, all-or-nothing.  A pack call with
\* capacity below the message size (7 set-param, 5 I2S config) returns 0 and
\* leaves the buffer unchanged; one with a non-null buffer, a non-null config
\* (I2S config) and enough capacity returns exactly the size.  Every call
\* returns 0 having written nothing, or the size having written every byte
\* of the message.
C3_PackCapacityGuard == [][C3_PackStep]_vars

C3_Witness ==
    /\ call.op = "pack_set_param"
    /\ ~buf.null
    /\ buf_len = 6
    /\ ret = 0
    /\ buf.mem = [i \in 1..6 |-> FILL]

\* One step of the model, as C4_UnpackExactLength constrains it.
C4_UnpackStep ==
    /\ call'.op = "unpack_set_param" =>
          /\ NoNullSetParam(call') => (ok' <=> call'.payload_len = 6)
          /\ ~ok' => /\ param_id' = param_id
                     /\ param_value' = param_value
                     /\ config' = config
    /\ call'.op = "unpack_i2s_config" =>
          /\ NoNullI2sConfig(call') => (ok' <=> call'.payload_len = 4)
          /\ ~ok' => /\ param_id' = param_id
                     /\ param_value' = param_value
                     /\ config' = config

\* C4: exact-length validation on unpack.  With no null argument the
\* set-param unpack succeeds iff payload_len = 6 and the I2S-config unpack
\* iff payload_len = 4; a failed call leaves param_id, param_value and config
\* as they were.
C4_UnpackExactLength == [][C4_UnpackStep]_vars

C4_Witness ==
    /\ call.op = "unpack_set_param"
    /\ NoNullSetParam(call)
    /\ call.payload_len = 7
    /\ ~ok
    /\ param_id = LoadLE16(STALE, 0)
    /\ param_value = STALE

\* One step of the model, as C5_NullGuard constrains it.
C5_NullStep ==
    /\ (call'.op = "pack_set_param" /\ buf.null) =>
          (ret' = 0 /\ buf' = buf)
    /\ (call'.op = "pack_i2s_config" /\ (buf.null \/ call'.config.null)) =>
          (ret' = 0 /\ buf' = buf)
    /\ (call'.op = "unpack_set_param" /\ ~NoNullSetParam(call')) =>
          (~ok' /\ param_id' = param_id /\ param_value' = param_value /\ rx' = rx)
    /\ (call'.op = "unpack_i2s_config" /\ ~NoNullI2sConfig(call')) =>
          (~ok' /\ config' = config /\ rx' = rx)

\* C5: null guard.  A pack or unpack call with a null required pointer
\* returns the failure value (0, FALSE) whatever its other arguments and
\* changes no buffer and no out object.
C5_NullGuard == [][C5_NullStep]_vars

C5_Witness ==
    /\ call.op = "unpack_set_param"
    /\ call.payload_len = 6
    /\ ~call.payload_null
    /\ ~call.id_null
    /\ call.value_null
    /\ ~ok
    /\ param_id = LoadLE16(STALE, 0)

\* One step of the model, as C6_SetParamLayout constrains it.
C6_LayoutStep ==
    /\ (call'.op = "pack_set_param" /\ ret' > 0) =>
          /\ ret' = 7
          /\ Len(buf'.mem) = Len(buf.mem)
          /\ buf'.mem[1] = REG_COMMON_SET_PARAM
          /\ buf'.mem[1] = \H82
          /\ buf'.mem[2] = call'.param_id % 256
          /\ buf'.mem[3] = call'.param_id \div 256
          /\ \A k \in 0..3 : buf'.mem[4 + k] = u8(value, k)
          /\ \A i \in 8..Len(buf.mem) : buf'.mem[i] = buf.mem[i]
    /\ (/\ call'.op = "pack_set_param"
        /\ call'.param_id = \H1001
        /\ u32(value) = [hi |-> \H1234, lo |-> \H5678]
        /\ ~buf.null
        /\ buf_len = 16) =>
          /\ ret' = 7
          /\ SubSeq(buf'.mem, 2, 7) = <<\H01, \H10, \H78, \H56, \H34, \H12>>

\* C6: set-parameter wire layout.  A successful set-param pack returns 7 and
\* writes REG_COMMON_SET_PARAM, the param_id low byte then high byte, then
\* u8[0]..u8[3] of the value; bytes from offset 7 on keep their content.  For
\* (0x1001, u32 = 0x12345678) and capacity 16, bytes 1..6 are
\* 01 10 78 56 34 12.
C6_SetParamLayout == [][C6_LayoutStep]_vars

C6_Witness ==
    /\ call.op = "pack_set_param"
    /\ call.param_id = \H1001
    /\ buf_len = 16
    /\ ret = 7
    /\ buf.mem = <<\H82, \H01, \H10, \H78, \H56, \H34, \H12>>
                    \o [i \in 1..9 |-> FILL]

\* One step of the model, as C7_I2sConfigLayout constrains it.
C7_LayoutStep ==
    /\ (/\ call'.op = "unpack_i2s_config"
        /\ NoNullI2sConfig(call')
        /\ call'.payload_len = 4) =>
          /\ ok'
          /\ config'.input_slot_mask = rx[1] + 256 * rx[2]
          /\ config'.output_slot_mask = rx[3] + 256 * rx[4]
          /\ rx = <<\H03, \H00, \H08, \H00>> =>
                config' = [input_slot_mask |-> \H0003, output_slot_mask |-> \H0008]
    /\ (call'.op = "pack_i2s_config" /\ ret' > 0) =>
          /\ ret' = 5
          /\ Len(buf'.mem) = Len(buf.mem)
          /\ buf'.mem[1] = REG_COMMON_I2S_CONFIG
          /\ buf'.mem[1] = \H81
          /\ buf'.mem[2] + 256 * buf'.mem[3] = call'.config.obj.input_slot_mask
          /\ buf'.mem[4] + 256 * buf'.mem[5] = call'.config.obj.output_slot_mask
          /\ \A i \in 6..Len(buf.mem) : buf'.mem[i] = buf.mem[i]

\* C7: I2S-config wire layout.  Unpacking any 4-byte payload b0 b1 b2 b3
\* succeeds with input_slot_mask = b0 + 256*b1 and output_slot_mask =
\* b2 + 256*b3 (03 00 08 00 gives 0x0003 and 0x0008); a successful I2S-config
\* pack returns 5 and writes REG_COMMON_I2S_CONFIG, the input mask's two
\* bytes, then the output mask's two bytes, and nothing else.
C7_I2sConfigLayout == [][C7_LayoutStep]_vars

C7_Witness ==
    /\ call.op = "unpack_i2s_config"
    /\ call.from.op = "inject"
    /\ NoNullI2sConfig(call)
    /\ rx = <<\H03, \H00, \H08, \H00>>
    /\ ok
    /\ config = [input_slot_mask |-> \H0003, output_slot_mask |-> \H0008]

\* Every name the two register enums define.
DefinedRegs ==
    CommonReadRegs \cup CommonWriteRegs
        \cup { [name |-> "REG_SPECIFIC_READ_START",  addr |-> REG_SPECIFIC_READ_START],
               [name |-> "REG_SPECIFIC_WRITE_START", addr |-> REG_SPECIFIC_WRITE_START] }

\* C8: register address partition.  Each 8-bit address is in exactly one of
\* common read 0x00-0x1F, module-specific read 0x20-0x7F, common write
\* 0x80-0x9F, module-specific write 0xA0-0xFF; the defined common read
\* registers (0x00-0x04) are common-read addresses, the defined common
\* commands common-write addresses, no two defined names share an address,
\* and the command bytes of the two pack operations are distinct
\* common-write addresses.
C8_RegisterPartition ==
    /\ \A a \in 0..255 :
          /\ RegClass(a) = "common_read"    <=> a \in \H00..\H1F
          /\ RegClass(a) = "specific_read"  <=> a \in \H20..\H7F
          /\ RegClass(a) = "common_write"   <=> a \in \H80..\H9F
          /\ RegClass(a) = "specific_write" <=> a \in \HA0..\HFF
    /\ \A r \in CommonReadRegs :
          r.addr \in \H00..\H04 /\ RegClass(r.addr) = "common_read"
    /\ \A r \in CommonWriteRegs : RegClass(r.addr) = "common_write"
    /\ \A r, q \in DefinedRegs : r.name # q.name => r.addr # q.addr
    /\ reg_class = RegClass(reg)
    /\ call.op = "transfer" =>
          /\ reg_class = "common_write"
          /\ call.sent.op = "pack_set_param" =>
                (reg = REG_COMMON_SET_PARAM /\ reg # REG_COMMON_I2S_CONFIG)
          /\ call.sent.op = "pack_i2s_config" =>
                (reg = REG_COMMON_I2S_CONFIG /\ reg # REG_COMMON_SET_PARAM)

C8_Witness ==
    /\ call.op = "transfer"
    /\ call.sent.op = "pack_set_param"
    /\ reg = \H82
    /\ reg_class = "common_write"

\* The parameters whose identifier is id, and the ranges id lies in.
ParamsWithId(id) == { p \in ParamIdValue_t : p.id = id }

RangesHolding(id) == { r \in ParamRanges : r.lo <= id /\ id <= r.hi }

\* C9: parameter identifier uniqueness.  The identifiers of the table are
\* pairwise distinct 16-bit values, each inside the range of its module type
\* (oscillator 0x1000-0x10FF, filter 0x1100-0x11FF, LFO 0x3000-0x30FF), the
\* ranges of different module types do not overlap, and a param_id unpacked
\* from a payload names at most one parameter of at most one module type.
C9_ParamIdUnique ==
    /\ \A p, q \in ParamIdValue_t : p.name # q.name => p.id # q.id
    /\ \A p \in ParamIdValue_t :
          /\ p.id \in 0..\HFFFF
          /\ p.module = "OSC"    => p.id \in \H1000..\H10FF
          /\ p.module = "FILTER" => p.id \in \H1100..\H11FF
          /\ p.module = "LFO"    => p.id \in \H3000..\H30FF
          /\ \E r \in ParamRanges :
                r.module = p.module /\ r.lo <= p.id /\ p.id <= r.hi
    /\ \A r, q \in ParamRanges :
          r.module # q.module => (r.hi < q.lo \/ q.hi < r.lo)
    /\ (call.op = "unpack_set_param" /\ ok) =>
          /\ Cardinality(ParamsWithId(param_id)) <= 1
          /\ Cardinality(RangesHolding(param_id)) <= 1
          /\ \A p \in ParamsWithId(param_id) :
                \A r \in RangesHolding(param_id) : r.module = p.module

C9_Witness ==
    /\ call.op = "unpack_set_param"
    /\ ok
    /\ param_id = \H1105
    /\ ParamsWithId(param_id) =
          { [name |-> "PARAM_FILTER_CUTOFF_MOD_SLOT", id |-> \H1105, module |-> "FILTER"] }

\* The two's-complement reading of an unsigned 16-bit number.
TwosComplement16(u) == IF u >= 32768 THEN u - 65536 ELSE u

\* The two's-complement reading of an unsigned 32-bit number [hi, lo].
TwosComplement32(u) == TwosComplement16(u.hi) * 65536 + u.lo

\* Every member of the union reads the same bytes v.
ViewsAgree(v) ==
    /\ u32(v).lo = v[1] + 256 * v[2]
    /\ u32(v).hi = v[3] + 256 * v[4]
    /\ s32(v) = TwosComplement32(u32(v))
    /\ \A k \in 0..1 :
          /\ u16(v, k) = v[2 * k + 1] + 256 * v[2 * k + 2]
          /\ s16(v, k) = TwosComplement16(u16(v, k))
    /\ \A k \in 0..3 : u8(v, k) = v[k + 1]

\* Bytes first .. last (offsets) are the only ones an assignment may change.
OnlyBytes(first, last) ==
    \A i \in 0..3 : (i < first \/ i > last) => value'[i + 1] = value[i + 1]

\* One step of the model, as C10_ValueViews constrains it.
C10_ViewStep ==
    /\ ViewsAgree(value) /\ ViewsAgree(value')
    /\ ViewsAgree(param_value) /\ ViewsAgree(param_value')
    /\ call'.op = "set_u32" => u32(value') = call'.x
    /\ call'.op = "set_s32" => s32(value') = call'.x
    /\ call'.op = "set_u16" =>
          /\ u16(value', call'.k) = call'.x
          /\ OnlyBytes(2 * call'.k, 2 * call'.k + 1)
    /\ call'.op = "set_s16" =>
          /\ s16(value', call'.k) = call'.x
          /\ OnlyBytes(2 * call'.k, 2 * call'.k + 1)
    /\ call'.op = "set_u8" =>
          /\ u8(value', call'.k) = call'.x
          /\ OnlyBytes(call'.k, call'.k)
    /\ (call'.op = "pack_set_param" /\ ret' > 0) =>
          SubSeq(buf'.mem, 4, 7) = <<u8(value, 0), u8(value, 1), u8(value, 2), u8(value, 3)>>

\* C10: the value's views agree without conversion.  u32, s32, u16[k], s16[k]
\* and u8[k] are readings of the same 4 bytes (low byte first, signed ones in
\* two's complement); an assignment through one member reads back what was
\* assigned and changes no byte outside that member; the 4 value bytes a
\* set-param pack puts on the wire are u8[0..3] in order.
C10_ValueViews == [][C10_ViewStep]_vars

C10_Witness ==
    /\ call.op = "set_s16"
    /\ call.k = 1
    /\ call.x = -32768
    /\ value = <<\HDE, \HAD, \H00, \H80>>
    /\ s32(value) = (-2147483647) - 1 + \HADDE
    /\ u16(value, 0) = \HADDE

=============================================================================
